---- MODULE Spec2Model ----
(***************************************************************************)
(* langdock-proxy (src/server.js): the streaming endpoints POST /assistant, *)
(* POST /chat/completions and GET /assistant-stream as one relay session    *)
(* driven by Node callbacks (fetch resolution, upstream body 'data' / 'end' *)
(* / 'error', the 1 s heartbeat interval, the inbound request's 'aborted'   *)
(* and 'close'), and the carry-buffer line reassembly of the reframe mode.  *)
(* Further specifications cover POST /assistant-json, two concurrent        *)
(* sessions, POST /log, POST /upload and GET /debug-sse.                    *)
(*                                                                         *)
(* s is the request in hand, sessions the concurrent relay sessions, blob   *)
(* the day's append blob and logReq the POST /log requests in progress.     *)
(*                                                                         *)
(* Text is a sequence of one-character strings.  Upstream bytes are the     *)
(* ASCII bytes "a", " ", "\r", "\n" and the two bytes "xC3" "xA9" of the    *)
(* UTF-8 encoding of U+00E9; decoded text has the characters "a", " ",      *)
(* "\r", "\n", "U+00E9" and the replacement character "U+FFFD".             *)
(***************************************************************************)
EXTENDS Integers, Sequences, FiniteSets, TLC

VARIABLES s, sessions, blob, logReq

vars == <<s, sessions, blob, logReq>>

-----------------------------------------------------------------------------
(* Bounds of the model *)

\* longest upstream body of a relay session, in bytes
MaxBody == 3
\* longest upstream body of each of two concurrent sessions, in bytes
MaxPairBody == 1
\* most heartbeat frames of each of two concurrent sessions
MaxPairHb == 1
\* most heartbeat frames written into one open response
MaxHb == 2
\* longest upstream text of the line-reassembly runs, in bytes
MaxText == 3

-----------------------------------------------------------------------------
(* Text helpers *)

NL == "\n"
CR == "\r"
SP == " "

\* the bytes of relay-session bodies
BodyBytes == {"a", NL}
\* the bytes of line-reassembly texts
TextBytes == {"a", SP, CR, NL, "xC3", "xA9"}

SeqsUpTo(S, n) == UNION {[1..k -> S] : k \in 0..n}

\* chunk.toString("utf8"): a lead byte followed by its continuation byte is
\* one character; a lead byte without it, or a stray continuation byte, is
\* decoded to U+FFFD
RECURSIVE ToStringUtf8(_)
ToStringUtf8(b) ==
  IF b = <<>> THEN <<>>
  ELSE IF Head(b) = "xC3"
       THEN IF Len(b) >= 2 /\ b[2] = "xA9"
            THEN <<"U+00E9">> \o ToStringUtf8(SubSeq(b, 3, Len(b)))
            ELSE <<"U+FFFD">> \o ToStringUtf8(Tail(b))
       ELSE IF Head(b) = "xA9"
            THEN <<"U+FFFD">> \o ToStringUtf8(Tail(b))
            ELSE <<Head(b)>> \o ToStringUtf8(Tail(b))

IsWhite(c) == c \in {SP, CR, NL}

RECURSIVE TrimStart(_)
TrimStart(t) == IF t # <<>> /\ IsWhite(Head(t)) THEN TrimStart(Tail(t)) ELSE t

RECURSIVE TrimEnd(_)
TrimEnd(t) ==
  IF t # <<>> /\ IsWhite(t[Len(t)]) THEN TrimEnd(SubSeq(t, 1, Len(t) - 1)) ELSE t

\* String.prototype.trim
Trim(t) == TrimStart(TrimEnd(t))

\* the segment before the first "\n" of t, without the "\r" that belongs to
\* the delimiter
BeforeNL(t, i) ==
  IF i >= 2 /\ t[i - 1] = CR THEN SubSeq(t, 1, i - 2) ELSE SubSeq(t, 1, i - 1)

FirstNL(t) ==
  IF \E i \in 1..Len(t) : t[i] = NL
  THEN CHOOSE i \in 1..Len(t) : t[i] = NL /\ \A j \in 1..(i - 1) : t[j] # NL
  ELSE 0

\* text.split(/\r?\n/): never empty, the last element is the text after the
\* last delimiter
RECURSIVE SplitLines(_)
SplitLines(t) ==
  IF FirstNL(t) = 0 THEN <<t>>
  ELSE <<BeforeNL(t, FirstNL(t))>> \o SplitLines(SubSeq(t, FirstNL(t) + 1, Len(t)))

-----------------------------------------------------------------------------
(* One relay session: the request, its response, the heartbeat timer and   *)
(* the upstream body, as the closures of one handler invocation hold them. *)

Endpoints == {"assistant", "chat", "stream", "json"}

\* the stream field of the inbound JSON: no such field, null, true, false
StreamVals == {"absent", "null", "true", "false"}

\* the non-2xx statuses upstream answers with
ErrStatuses == {401, 500}

\* errText.slice(0, 300)
ErrSlice == 300

\* the bodies of upstream's non-2xx answers: empty, short, and one character
\* longer than the slice
ErrBodies == {<<>>, <<"a">>, [i \in 1..(ErrSlice + 1) |-> "a"]}

\* the 2xx statuses upstream answers with (ldRes.ok)
OkStatuses == {200, 201}

\* err?.message || "" of an upstream stream error
ErrMessages == {<<>>, <<"a">>}

\* the content-types upstream answers with
ContentTypes ==
  {"text/event-stream", "text/event-stream; charset=utf-8", "text/plain"}

\* ct.includes("text/event-stream")
IncludesSse(ct) ==
  ct \in {"text/event-stream", "text/event-stream; charset=utf-8"}

\* mutant of ModeFor: every upstream body is passed through
ModeForAlwaysPass(ct) == "pass"

\* GET /assistant-stream: pass-through for an SSE upstream, else reframe
ModeFor(ct) == IF IncludesSse(ct) THEN "pass" ELSE "reframe"

\* what the q parameter of GET /assistant-stream may hold: nothing, text
\* that is no JSON, the JSON null, an object without assistantId, an object
\* whose assistantId does not match UUID_RE, an object whose assistantId does
QKinds == {"missing", "unparseable", "null", "noId", "badId", "uuid"}

\* let body = {}; try { body = JSON.parse(req.query.q || "{}") } catch {}
ParseQ(q) ==
  [obj |-> q # "null",
   id |-> IF q = "uuid" THEN "uuid" ELSE IF q = "badId" THEN "bad" ELSE "absent"]

\* !body.assistantId || !UUID_RE.test(body.assistantId)
InvalidId(b) == b.id # "uuid"

Frame(k, t) == [k |-> k, t |-> t]

NoBody == [k |-> "none", t |-> <<>>]

\* no body was handed to fetch
NoReq == [rest |-> "none", stream |-> "none"]

\* the state of a request Express has just handed to its handler
NewSession(ep, reqStream, q) ==
  [ep |-> ep,                 \* the route
   reqStream |-> reqStream,   \* stream field of the inbound JSON (StreamVals)
   q |-> q,                   \* req.query.q, one of QKinds
   pc |-> "start",            \* start, fetch, streaming, done, rejected
   cli |-> "connected",       \* inbound connection: connected, aborted, closed
   closeReg |-> FALSE,        \* req.on("close"/"aborted", close) registered
   headersSent |-> FALSE,
   resStatus |-> 0,
   resType |-> "none",
   resBody |-> NoBody,
   resEnded |-> FALSE,
   out |-> <<>>,              \* frames written to the response, in order
   late |-> {},               \* kinds of frames written after res.end()
   hbArmed |-> FALSE,         \* the setInterval timer is running
   mode |-> "none",           \* data handler attached: pass or reframe
   carry |-> <<>>,
   sent |-> NoReq,            \* the body handed to fetch
   up |-> "none",             \* none, pending, unreachable, unread, flowing,
                              \* ended, errored, destroyed, consumed
   upStatus |-> 0,
   upCt |-> "none",
   upText |-> <<>>,           \* the whole upstream body
   upErr |-> <<>>,            \* message of the upstream stream error
   rest |-> <<>>,             \* upstream bytes not yet delivered
   got |-> <<>>,              \* chunks the 'data' listener has received
   nFetch |-> 0,              \* calls of fetch
   nClear |-> 0,              \* calls of clearInterval(hb)
   nDestroy |-> 0,            \* calls of body.destroy()
   nEnd |-> 0]                \* calls of res.end()

\* req.body.stream ?? true
OrTrue(v) == IF v \in {"absent", "null"} THEN "true" ELSE v

\* body.stream of POST /chat/completions
ChatStream(r) == OrTrue(r.reqStream) # "false"

\* mutant of UpstreamBody: the caller's stream field is sent on as it came
UpstreamBodyAsSent(r) == [rest |-> "inbound", stream |-> r.reqStream]

\* the body of the upstream request: the inbound JSON's fields ("inbound"
\* stands for all fields but stream), with stream set by the route
UpstreamBody(r) ==
  [rest |-> "inbound",
   stream |-> CASE r.ep = "chat" -> OrTrue(r.reqStream)
                [] r.ep = "json" -> "false"
                [] OTHER -> "true"]

\* res.write(frame): a write after res.end() does not reach the client
Write(r, f) ==
  IF r.resEnded THEN [r EXCEPT !.late = @ \cup {f.k}]
  ELSE [r EXCEPT !.out = Append(@, f)]

ClearHb(r) == [r EXCEPT !.hbArmed = FALSE, !.nClear = @ + 1]

\* mutant of DestroyUp: the call is made and the body keeps flowing
DestroyUpStillFlowing(r) == [r EXCEPT !.nDestroy = @ + 1]

\* body.destroy(): a destroyed stream emits no further 'data', 'end' or
\* 'error'; on a body that already ended or failed the call changes nothing
DestroyUp(r) ==
  [r EXCEPT !.up = IF @ = "flowing" THEN "destroyed" ELSE @, !.nDestroy = @ + 1]

ResEnd(r) == [r EXCEPT !.resEnded = TRUE, !.nEnd = @ + 1]

\* mutant of Preamble: the retry directive is written before the padding
PreambleRetryFirst(r) ==
  Write(Write(Write(
    [r EXCEPT !.headersSent = TRUE, !.resStatus = 200,
              !.resType = "text/event-stream"],
    Frame("retry", <<>>)), Frame("pad", <<>>)), Frame("ok", <<>>))

\* SSE response headers, flushHeaders, then the anti-buffer padding
Preamble(r) ==
  Write(Write(Write(
    [r EXCEPT !.headersSent = TRUE, !.resStatus = 200,
              !.resType = "text/event-stream"],
    Frame("pad", <<>>)), Frame("retry", <<>>)), Frame("ok", <<>>))

ArmHb(r) == [r EXCEPT !.hbArmed = TRUE]

\* mutant of HbCallback: the second tick of an idle session closes it
HbCallbackIdleTimeout(r) ==
  IF \E i \in 1..Len(r.out) : r.out[i].k = "hb"
  THEN ResEnd(ClearHb(r))
  ELSE Write(r, Frame("hb", <<>>))

\* the interval callback
HbCallback(r) == Write(r, Frame("hb", <<>>))

\* mutant of Close: the carried remainder is flushed before the end
CloseFlushing(r) ==
  ResEnd(DestroyUp(
    IF Trim(r.carry) # <<>>
    THEN Write(ClearHb(r), Frame("data", Trim(r.carry))) ELSE ClearHb(r)))

\* const close = () => { clearInterval(hb); body.destroy(); res.end(); }
Close(r) == ResEnd(DestroyUp(ClearHb(r)))

\* mutant of OnDataPass: the chunk is trimmed before it is written
OnDataPassTrimmed(r, chunk) == Write(r, Frame("raw", Trim(chunk)))

\* pass-through 'data' listener
OnDataPass(r, chunk) == Write(r, Frame("raw", chunk))

\* the for loop of the reframe 'data' listener over parts
RECURSIVE WriteLines(_, _)
WriteLines(r, parts) ==
  IF parts = <<>> THEN r
  ELSE WriteLines(IF Trim(Head(parts)) = <<>> THEN r
                  ELSE Write(r, Frame("data", Trim(Head(parts)))),
                  Tail(parts))

\* mutant of OnDataReframe: the carry is not prepended to the chunk
OnDataReframeNoCarry(r, chunk) ==
  LET parts == SplitLines(ToStringUtf8(chunk))
  IN  WriteLines([r EXCEPT !.carry = parts[Len(parts)]],
                 SubSeq(parts, 1, Len(parts) - 1))

\* mutant of OnDataReframe: the last segment is written too (no parts.pop())
OnDataReframeEager(r, chunk) ==
  LET parts == SplitLines(r.carry \o ToStringUtf8(chunk))
  IN  WriteLines([r EXCEPT !.carry = parts[Len(parts)]], parts)

\* reframe 'data' listener
OnDataReframe(r, chunk) ==
  LET parts == SplitLines(r.carry \o ToStringUtf8(chunk))
  IN  WriteLines([r EXCEPT !.carry = parts[Len(parts)]],
                 SubSeq(parts, 1, Len(parts) - 1))

\* pass-through 'end' listener
OnEndPass(r) == ResEnd(Write(ClearHb(r), Frame("done", <<>>)))

\* mutant of OnEndReframe: the carried remainder is written as it is
OnEndReframeUntrimmed(r) ==
  LET c == ClearHb(r)
      f == IF c.carry # <<>> THEN Write(c, Frame("data", c.carry)) ELSE c
  IN  ResEnd(Write(f, Frame("done", <<>>)))

\* mutant of OnEndReframe: the carried remainder is dropped
OnEndReframeNoFlush(r) == ResEnd(Write(ClearHb(r), Frame("done", <<>>)))

\* reframe 'end' listener
OnEndReframe(r) ==
  LET c == ClearHb(r)
      f == IF Trim(c.carry) # <<>> THEN Write(c, Frame("data", Trim(c.carry)))
           ELSE c
  IN  ResEnd(Write(f, Frame("done", <<>>)))

\* mutant of OnError: the upstream request is issued again
OnErrorRetry(r, msg) ==
  [ResEnd(Write(ClearHb(r), Frame("error", msg))) EXCEPT !.nFetch = @ + 1]

\* mutant of OnError: ':done' follows the error frame
OnErrorThenDone(r, msg) ==
  ResEnd(Write(Write(ClearHb(r), Frame("error", msg)), Frame("done", <<>>)))

\* 'error' listener (both modes): res.write(`:error ${err?.message || ""}`)
OnError(r, msg) == ResEnd(Write(ClearHb(r), Frame("error", msg)))

\* the listeners attached once upstream answered 2xx
Attach(r, mode, ct, text) ==
  [r EXCEPT !.closeReg = TRUE, !.mode = mode, !.pc = "streaming",
            !.up = "flowing", !.upStatus = 200, !.upCt = ct,
            !.upText = text, !.rest = text]

\* fetch(...) is called
CallFetch(r) ==
  [r EXCEPT !.pc = "fetch", !.up = "pending", !.nFetch = @ + 1,
            !.sent = UpstreamBody(r)]

\* res.status(st).type(ty).send(body) / .json(body)
Send(r, st, ty, body) ==
  [r EXCEPT !.headersSent = TRUE, !.resStatus = st, !.resType = ty,
            !.resBody = body, !.resEnded = TRUE, !.pc = "done"]

-----------------------------------------------------------------------------
(* Actions of a relay session *)

\* POST /assistant, POST /chat/completions: up to await fetch
PostStart ==
  /\ s.pc = "start" /\ s.ep \in {"assistant", "chat", "json"}
  /\ s' = CallFetch(s)
  /\ UNCHANGED <<sessions, blob, logReq>>

\* GET /assistant-stream: q is the JSON null, so body.stream = true throws a
\* TypeError outside any try and the handler's promise rejects
StreamThrows ==
  /\ s.pc = "start" /\ s.ep = "stream" /\ ~ParseQ(s.q).obj
  /\ s' = [s EXCEPT !.pc = "rejected"]
  /\ UNCHANGED <<sessions, blob, logReq>>

\* GET /assistant-stream: validation fails
StreamInvalid ==
  /\ s.pc = "start" /\ s.ep = "stream"
  /\ ParseQ(s.q).obj /\ InvalidId(ParseQ(s.q))
  /\ s' = Send(s, 400, "application/json", [k |-> "invalid", t |-> <<>>])
  /\ UNCHANGED <<sessions, blob, logReq>>

\* GET /assistant-stream: headers, padding, heartbeat, then await fetch
StreamStart ==
  /\ s.pc = "start" /\ s.ep = "stream"
  /\ ParseQ(s.q).obj /\ ~InvalidId(ParseQ(s.q))
  /\ s' = CallFetch(ArmHb(Preamble(s)))
  /\ UNCHANGED <<sessions, blob, logReq>>

\* mutant of Catch: res.headersSent is not consulted
CatchAlwaysJson(r) ==
  Send(r, 500, "application/json", [k |-> "failed", t |-> <<>>])

\* mutant of Catch: the failure is answered as 200
CatchAs200(r) ==
  IF ~r.headersSent
  THEN Send(r, 200, "application/json", [k |-> "failed", t |-> <<>>])
  ELSE [ResEnd(r) EXCEPT !.pc = "done"]

\* catch (err) of the POST handlers: JSON {error, detail} with status 500
\* when the headers are unsent, else res.end()
Catch(r) ==
  IF ~r.headersSent
  THEN Send(r, 500, "application/json", [k |-> "failed", t |-> <<>>])
  ELSE [ResEnd(r) EXCEPT !.pc = "done"]

\* fetch rejects: the catch block of the POST handlers; GET /assistant-stream
\* awaits outside any try
FetchReject ==
  /\ s.pc = "fetch"
  /\ s' = IF s.ep = "stream"
          THEN [s EXCEPT !.pc = "rejected", !.up = "unreachable"]
          ELSE Catch([s EXCEPT !.up = "unreachable"])
  /\ UNCHANGED <<sessions, blob, logReq>>

\* mutant of NotOkPost: the upstream status is replaced by 500
NotOkPostAs500(r, st, text) ==
  Send(r, 500, "application/json", [k |-> "upstream", t |-> text])

\* if (!ldRes.ok) of the POST handlers
NotOkPost(r, st, text) ==
  Send(r, st, "application/json", [k |-> "upstream", t |-> text])

\* str.slice(0, n)
Slice(str, n) == SubSeq(str, 1, IF Len(str) < n THEN Len(str) ELSE n)

\* mutant of NotOkStream: the upstream body is not cut
NotOkStreamWhole(r, st, text) ==
  [ResEnd(Write(r, Frame("everr", <<ToString(st)>> \o text)))
     EXCEPT !.pc = "done"]

\* if (!up.ok) of GET /assistant-stream: one 'event: error' frame whose data
\* is JSON.stringify({status, body: errText.slice(0, 300)}), then res.end()
NotOkStream(r, st, text) ==
  [ResEnd(Write(r, Frame("everr", <<ToString(st)>> \o Slice(text, ErrSlice))))
     EXCEPT !.pc = "done"]

\* upstream answers non-2xx
FetchNotOk ==
  /\ s.pc = "fetch" /\ s.ep # "json"
  /\ \E st \in ErrStatuses, text \in ErrBodies :
       LET r == [s EXCEPT !.up = "consumed", !.upStatus = st,
                          !.upCt = "application/json", !.upText = text]
       IN  s' = IF s.ep = "stream" THEN NotOkStream(r, st, text)
                ELSE NotOkPost(r, st, text)
  /\ UNCHANGED <<sessions, blob, logReq>>

\* POST /assistant-json: whatever upstream answers is buffered and sent on
\* with its status and its content-type, application/json if it has none
JsonBuffered ==
  /\ s.pc = "fetch" /\ s.ep = "json"
  /\ \E st \in OkStatuses \cup ErrStatuses, ct \in ContentTypes \cup {""},
        text \in SeqsUpTo(BodyBytes, 1) :
       s' = Send([s EXCEPT !.up = "consumed", !.upStatus = st, !.upCt = ct,
                           !.upText = text],
                 st, IF ct = "" THEN "application/json" ELSE ct,
                 [k |-> "upstream", t |-> text])
  /\ UNCHANGED <<sessions, blob, logReq>>

\* POST /chat/completions, caller asked for no stream: the body is buffered
ChatBuffered ==
  /\ s.pc = "fetch" /\ s.ep = "chat" /\ ~ChatStream(s)
  /\ \E st \in OkStatuses, ct \in ContentTypes,
        text \in SeqsUpTo(BodyBytes, 1) :
       s' = Send([s EXCEPT !.up = "consumed", !.upStatus = st, !.upCt = ct,
                           !.upText = text],
                 200, ct, [k |-> "upstream", t |-> text])
  /\ UNCHANGED <<sessions, blob, logReq>>

\* POST /assistant, POST /chat/completions: upstream answered 2xx, the SSE
\* response is opened and every chunk is forwarded as it arrives
PostOpen ==
  /\ s.pc = "fetch"
  /\ s.ep = "assistant" \/ (s.ep = "chat" /\ ChatStream(s))
  /\ \E ct \in ContentTypes, text \in SeqsUpTo(BodyBytes, MaxBody) :
       s' = Attach(ArmHb(Preamble(s)), "pass", ct, text)
  /\ UNCHANGED <<sessions, blob, logReq>>

\* POST /assistant, POST /chat/completions: upstream answered 2xx and a
\* statement of the try block after flushHeaders throws, either before the
\* heartbeat is armed or once it is armed and close is registered; the catch
\* block runs with the headers sent
PostOpenThrows ==
  /\ s.pc = "fetch"
  /\ s.ep = "assistant" \/ (s.ep = "chat" /\ ChatStream(s))
  /\ \E ct \in ContentTypes, armed \in BOOLEAN :
       LET r == [Preamble(s) EXCEPT !.up = "unread", !.upStatus = 200,
                                    !.upCt = ct]
       IN  s' = Catch(IF armed THEN [ArmHb(r) EXCEPT !.closeReg = TRUE] ELSE r)
  /\ UNCHANGED <<sessions, blob, logReq>>

\* GET /assistant-stream: upstream answered 2xx
StreamOpen ==
  /\ s.pc = "fetch" /\ s.ep = "stream"
  /\ \E ct \in ContentTypes, text \in SeqsUpTo(BodyBytes, MaxBody) :
       s' = Attach(s, ModeFor(ct),
                   ct, text)
  /\ UNCHANGED <<sessions, blob, logReq>>

NumHb(out) == Cardinality({i \in 1..Len(out) : out[i].k = "hb"})

\* the 1 s interval fires
HbTick ==
  /\ s.hbArmed
  /\ s.resEnded \/ NumHb(s.out) < MaxHb
  /\ s' = HbCallback(s)
  /\ UNCHANGED <<sessions, blob, logReq>>

\* upstream body emits 'data' with the next chunk
UpData ==
  /\ s.pc = "streaming" /\ s.up = "flowing" /\ s.rest # <<>>
  /\ \E n \in 1..Len(s.rest) :
       LET chunk == SubSeq(s.rest, 1, n)
           r == [s EXCEPT !.rest = SubSeq(@, n + 1, Len(@)),
                          !.got = Append(@, chunk)]
       IN  s' = IF s.mode = "pass" THEN OnDataPass(r, chunk)
                ELSE OnDataReframe(r, chunk)
  /\ UNCHANGED <<sessions, blob, logReq>>

\* upstream body emits 'end'
UpEnd ==
  /\ s.pc = "streaming" /\ s.up = "flowing" /\ s.rest = <<>>
  /\ LET r == [s EXCEPT !.up = "ended"]
     IN  s' = IF s.mode = "pass" THEN OnEndPass(r) ELSE OnEndReframe(r)
  /\ UNCHANGED <<sessions, blob, logReq>>

\* upstream body emits 'error'
UpError ==
  /\ s.pc = "streaming" /\ s.up = "flowing"
  /\ \E msg \in ErrMessages :
       s' = OnError([s EXCEPT !.up = "errored", !.upErr = msg], msg)
  /\ UNCHANGED <<sessions, blob, logReq>>

\* the inbound request emits 'aborted'
ClientAborted ==
  /\ s.pc # "start" /\ s.cli = "connected"
  /\ LET r == [s EXCEPT !.cli = "aborted"]
     IN  s' = IF s.closeReg THEN Close(r) ELSE r
  /\ UNCHANGED <<sessions, blob, logReq>>

\* the inbound request emits 'close'
ClientClose ==
  /\ s.pc # "start" /\ s.cli \in {"connected", "aborted"}
  /\ LET r == [s EXCEPT !.cli = "closed"]
     IN  s' = IF s.closeReg THEN Close(r) ELSE r
  /\ UNCHANGED <<sessions, blob, logReq>>

\* one request at a time: no concurrent sessions
NoSessions == <<>>

\* the blob of the day does not exist
NoBlob == [exists |-> FALSE, lines |-> <<>>]

\* no POST /log request is in progress
NoLogging == blob = NoBlob /\ logReq = <<>>

Init ==
  \E ep \in Endpoints, rs \in StreamVals, q \in QKinds :
       /\ (ep = "stream" /\ q \in {"missing", "unparseable", "null"}) =>
            rs = "absent"
       /\ ep # "stream" => q = "missing"
       /\ s = NewSession(ep, rs, q)
       /\ sessions = NoSessions
       /\ NoLogging

Next ==
  \/ PostStart
  \/ StreamThrows
  \/ StreamInvalid
  \/ StreamStart
  \/ FetchReject
  \/ FetchNotOk
  \/ JsonBuffered
  \/ ChatBuffered
  \/ PostOpen
  \/ PostOpenThrows
  \/ StreamOpen
  \/ HbTick
  \/ UpData
  \/ UpEnd
  \/ UpError
  \/ ClientAborted
  \/ ClientClose

Spec == Init /\ [][Next]_vars

\* GET /assistant-stream with a well-formed q, under fair scheduling: the
\* handler runs, the interval fires and fetch settles; what upstream and
\* the client do, and when, is not the program's to decide
InitLive ==
  /\ s = NewSession("stream", "absent", "uuid")
  /\ sessions = NoSessions
  /\ NoLogging

NextLive ==
  \/ StreamStart
  \/ FetchReject
  \/ FetchNotOk
  \/ StreamOpen
  \/ HbTick
  \/ UpData
  \/ UpEnd
  \/ UpError
  \/ ClientAborted
  \/ ClientClose

SpecLive ==
  /\ InitLive /\ [][NextLive]_vars
  /\ WF_vars(StreamStart)
  /\ WF_vars(HbTick)
  /\ WF_vars(FetchReject \/ FetchNotOk \/ StreamOpen)

-----------------------------------------------------------------------------
(* Line reassembly on its own: a reframe session of GET /assistant-stream   *)
(* that has just attached its listeners, over every upstream body of bytes  *)
(* of TextBytes, driven by the upstream body's events and the client's      *)
(* disconnect.                                                              *)

OpenedReframe(text) ==
  Attach(CallFetch(ArmHb(Preamble(NewSession("stream", "absent", "uuid")))),
         "reframe", "text/plain", text)

InitLines ==
  /\ \E text \in SeqsUpTo(TextBytes, MaxText) : s = OpenedReframe(text)
  /\ sessions = NoSessions
  /\ NoLogging

NextLines ==
  \/ UpData
  \/ UpEnd
  \/ UpError
  \/ ClientClose

SpecLines == InitLines /\ [][NextLines]_vars

-----------------------------------------------------------------------------
(* Two concurrent requests of GET /assistant-stream, each with the closure  *)
(* variables of its own handler invocation: res, hb, up, carry, close.      *)

SessionIds == {1, 2}

\* mutant of Own: carry and the timer handle are module-level variables,
\* shared by every request
OwnShared(i, r) ==
  sessions' = [j \in SessionIds |->
                 IF j = i THEN r
                 ELSE [sessions[j] EXCEPT !.carry = r.carry,
                                          !.hbArmed = r.hbArmed]]

\* a callback created by request i reads and writes the variables of its
\* own handler invocation only
Own(i, r) == sessions' = [sessions EXCEPT ![i] = r]

InitPair ==
  /\ s = NewSession("stream", "absent", "uuid")
  /\ sessions \in [SessionIds -> {OpenedReframe(text) :
                                    text \in SeqsUpTo(BodyBytes, MaxPairBody)}]
  /\ NoLogging

\* the interval of request i fires
PairHb ==
  /\ \E i \in SessionIds :
       /\ sessions[i].hbArmed /\ NumHb(sessions[i].out) < MaxPairHb
       /\ Own(i, HbCallback(sessions[i]))
  /\ UNCHANGED <<s, blob, logReq>>

\* the upstream body of request i emits 'data'
PairData ==
  /\ \E i \in SessionIds :
       /\ sessions[i].up = "flowing" /\ sessions[i].rest # <<>>
       /\ \E n \in 1..Len(sessions[i].rest) :
            LET chunk == SubSeq(sessions[i].rest, 1, n)
                r == [sessions[i] EXCEPT !.rest = SubSeq(@, n + 1, Len(@)),
                                         !.got = Append(@, chunk)]
            IN  Own(i, OnDataReframe(r, chunk))
  /\ UNCHANGED <<s, blob, logReq>>

\* the upstream body of request i emits 'end'
PairEnd ==
  /\ \E i \in SessionIds :
       /\ sessions[i].up = "flowing" /\ sessions[i].rest = <<>>
       /\ Own(i, OnEndReframe([sessions[i] EXCEPT !.up = "ended"]))
  /\ UNCHANGED <<s, blob, logReq>>

\* the upstream body of request i emits 'error'
PairError ==
  /\ \E i \in SessionIds :
       /\ sessions[i].up = "flowing"
       /\ Own(i, OnError([sessions[i] EXCEPT !.up = "errored"], <<>>))
  /\ UNCHANGED <<s, blob, logReq>>

\* the inbound request i emits 'close'
PairClose ==
  /\ \E i \in SessionIds :
       /\ sessions[i].cli = "connected"
       /\ Own(i, Close([sessions[i] EXCEPT !.cli = "closed"]))
  /\ UNCHANGED <<s, blob, logReq>>

NextPair ==
  \/ PairHb
  \/ PairData
  \/ PairEnd
  \/ PairError
  \/ PairClose

SpecPair == InitPair /\ [][NextPair]_vars

-----------------------------------------------------------------------------
(* POST /log: concurrent requests whose entries name the same day and the   *)
(* same session, so that appendToAzureBlob works on one append blob.  The   *)
(* blob store is the Azure service: exists() reports whether the blob is    *)
(* there, create() puts an empty append blob under the name, replacing one  *)
(* that is there, and appendBlock() adds a block at the end.                *)

LogIds == {1, 2, 3}

\* request i: pc is where its handler is suspended (exists, create, append)
\* or how it was answered (ok: 200 {ok: true}; failed: 500)
InitLog ==
  /\ s = NewSession("stream", "absent", "uuid")
  /\ sessions = NoSessions
  /\ blob \in {NoBlob, [exists |-> TRUE, lines |-> <<0>>]}
  /\ logReq = [i \in LogIds |-> "exists"]

\* await blobClient.exists() resolves
LogExists ==
  /\ \E i \in LogIds :
       /\ logReq[i] = "exists"
       /\ logReq' = [logReq EXCEPT ![i] = IF blob.exists THEN "append"
                                         ELSE "create"]
  /\ UNCHANGED <<s, sessions, blob>>

\* await blobClient.create() resolves
LogCreate ==
  /\ \E i \in LogIds :
       /\ logReq[i] = "create"
       /\ logReq' = [logReq EXCEPT ![i] = "append"]
  /\ blob' = [exists |-> TRUE, lines |-> <<>>]
  /\ UNCHANGED <<s, sessions>>

\* await blobClient.appendBlock(line, ...) resolves; the handler answers 200
LogAppend ==
  /\ \E i \in LogIds :
       /\ logReq[i] = "append" /\ blob.exists
       /\ blob' = [blob EXCEPT !.lines = Append(@, i)]
       /\ logReq' = [logReq EXCEPT ![i] = "ok"]
  /\ UNCHANGED <<s, sessions>>

\* one of the awaited calls rejects; the catch block answers 500
LogReject ==
  /\ \E i \in LogIds :
       /\ logReq[i] \in {"exists", "create", "append"}
       /\ logReq' = [logReq EXCEPT ![i] = "failed"]
  /\ UNCHANGED <<s, sessions, blob>>

NextLog ==
  \/ LogExists
  \/ LogCreate
  \/ LogAppend
  \/ LogReject

SpecLog == InitLog /\ [][NextLog]_vars

-----------------------------------------------------------------------------
(* POST /upload: the file is forwarded to upstream and the answer is        *)
(* normalised.  A JSON value is one of: "absent" (no such key), "null",     *)
(* "empty" (the empty string), the strings "a" and "b", and "1e999", a      *)
(* number literal beyond the range of a double.                             *)

JsonVals == {"absent", "null", "empty", "a", "b", "1e999"}

\* the bodies upstream answers with: no JSON, the JSON null, or an object
\* with the keys attachmentId, id, attachment.id, result.attachmentId
UploadBodies ==
  {[kind |-> "text"], [kind |-> "null"]} \cup
  [kind : {"object"}, attachmentId : JsonVals, id : JsonVals,
   attachment_id : JsonVals, result_attachmentId : JsonVals]

\* the value JSON.parse gives a member: a number literal beyond the range of
\* a double is read as Infinity
ParseVal(v) == IF v = "1e999" THEN "Infinity" ELSE v

\* JavaScript truthiness of a parsed value
Truthy(v) == v \notin {"absent", "null", "empty"}

\* what JSON.stringify writes for a value: Infinity is written as null
StringifyVal(v) == IF v = "Infinity" THEN "null" ELSE v

\* data.attachmentId || data.id || data?.attachment?.id ||
\* data?.result?.attachmentId || null
AttachmentId(data) ==
  LET a == ParseVal(data.attachmentId)
      b == ParseVal(data.id)
      c == ParseVal(data.attachment_id)
      d == ParseVal(data.result_attachmentId)
  IN  IF Truthy(a) THEN a
      ELSE IF Truthy(b) THEN b
      ELSE IF Truthy(c) THEN c
      ELSE IF Truthy(d) THEN d
      ELSE "null"

\* what the client receives
Reply(st, ty, body) == [status |-> st, type |-> ty, body |-> body]

NoReply == Reply(0, "none", [k |-> "none"])

\* the part of the handler after a 2xx answer
Normalise(text) ==
  IF text.kind = "text"
  THEN Reply(500, "application/json", [k |-> "parse failed"])
  ELSE IF text.kind = "null"
  THEN Reply(500, "application/json", [k |-> "upload failed"])
  ELSE IF ~Truthy(AttachmentId(text))
  THEN Reply(500, "application/json", [k |-> "no attachmentId"])
  ELSE Reply(200, "application/json",
             [k |-> "attachment",
              attachmentId |-> StringifyVal(AttachmentId(text))])

NewUpload(file) ==
  [ep |-> "upload", file |-> file, pc |-> "start", upStatus |-> 0,
   upCt |-> "none", upText |-> [kind |-> "none"], res |-> NoReply]

InitUpload ==
  /\ \E file \in BOOLEAN : s = NewUpload(file)
  /\ sessions = NoSessions
  /\ NoLogging

\* if (!req.file) return res.status(400)
UploadNoFile ==
  /\ s.pc = "start" /\ ~s.file
  /\ s' = [s EXCEPT !.pc = "done",
                    !.res = Reply(400, "application/json", [k |-> "no file"])]
  /\ UNCHANGED <<sessions, blob, logReq>>

\* the form is built and fetch is called
UploadFetch ==
  /\ s.pc = "start" /\ s.file
  /\ s' = [s EXCEPT !.pc = "fetch"]
  /\ UNCHANGED <<sessions, blob, logReq>>

\* fetch or ld.text() rejects: the catch block
UploadReject ==
  /\ s.pc = "fetch"
  /\ s' = [s EXCEPT !.pc = "done",
                    !.res = Reply(500, "application/json",
                                  [k |-> "upload failed"])]
  /\ UNCHANGED <<sessions, blob, logReq>>

\* upstream answers non-2xx: status, content-type and body are sent on
UploadNotOk ==
  /\ s.pc = "fetch"
  /\ \E st \in ErrStatuses, ct \in {"", "text/plain"},
        text \in {[kind |-> "text"], [kind |-> "null"]} :
       s' = [s EXCEPT !.pc = "done", !.upStatus = st, !.upCt = ct,
                      !.upText = text,
                      !.res = Reply(st, IF ct = "" THEN "application/json"
                                        ELSE ct,
                                    [k |-> "upstream", t |-> text])]
  /\ UNCHANGED <<sessions, blob, logReq>>

\* upstream answers 2xx: the body is parsed and normalised
UploadOk ==
  /\ s.pc = "fetch"
  /\ \E st \in OkStatuses, text \in UploadBodies :
       s' = [s EXCEPT !.pc = "done", !.upStatus = st,
                      !.upCt = "application/json", !.upText = text,
                      !.res = Normalise(text)]
  /\ UNCHANGED <<sessions, blob, logReq>>

NextUpload ==
  \/ UploadNoFile
  \/ UploadFetch
  \/ UploadReject
  \/ UploadNotOk
  \/ UploadOk

SpecUpload == InitUpload /\ [][NextUpload]_vars

-----------------------------------------------------------------------------
(* GET /debug-sse: a chain of ticks, each scheduling the next.  pending is  *)
(* what the chain waits for: the 500 ms timeout, the response's 'drain', or *)
(* nothing.                                                                 *)

\* if (i >= 10) return res.end()
LastTick == 10

\* mutant of Tick: the chain does not stop at the last tick
TickNoStop(r, ok) ==
  LET n == r.i + 1
      w == IF r.ended THEN [r EXCEPT !.i = n, !.late = @ \cup {n}]
           ELSE [r EXCEPT !.i = n, !.out = Append(@, n)]
  IN  [w EXCEPT !.pending = IF ok THEN "timeout" ELSE "drain"]

\* const tick = () => { ... }; ok is what res.write returned
Tick(r, ok) ==
  LET n == r.i + 1
      w == IF r.ended THEN [r EXCEPT !.i = n, !.late = @ \cup {n}]
           ELSE [r EXCEPT !.i = n, !.out = Append(@, n)]
  IN  IF n >= LastTick
      THEN [w EXCEPT !.ended = TRUE, !.nEnd = @ + 1, !.pending = "none"]
      ELSE [w EXCEPT !.pending = IF ok THEN "timeout" ELSE "drain"]

NewDebug ==
  [ep |-> "debug", pc |-> "start", cli |-> "connected", i |-> 0,
   out |-> <<>>,              \* the numbers of the data frames written
   late |-> {},               \* the numbers written after res.end()
   ended |-> FALSE, nEnd |-> 0, pending |-> "none", nDrain |-> 0]

InitDebug ==
  /\ s = NewDebug
  /\ sessions = NoSessions
  /\ NoLogging

\* the handler: headers, padding, ':hello', the first tick, the listeners
DebugStart ==
  /\ s.pc = "start"
  /\ \E ok \in BOOLEAN : s' = Tick([s EXCEPT !.pc = "running"], ok)
  /\ UNCHANGED <<sessions, blob, logReq>>

\* the 500 ms timeout fires
DebugTimeout ==
  /\ s.pc = "running" /\ s.pending = "timeout"
  /\ \E ok \in BOOLEAN : s' = Tick(s, ok)
  /\ UNCHANGED <<sessions, blob, logReq>>

\* the response emits 'drain': setTimeout(tick, 500)
DebugDrain ==
  /\ s.pc = "running" /\ s.pending = "drain" /\ s.cli = "connected"
  /\ s' = [s EXCEPT !.pending = "timeout", !.nDrain = @ + 1]
  /\ UNCHANGED <<sessions, blob, logReq>>

\* the inbound request emits 'aborted': close() is res.end()
DebugAborted ==
  /\ s.pc = "running" /\ s.cli = "connected"
  /\ s' = [s EXCEPT !.cli = "aborted", !.ended = TRUE, !.nEnd = @ + 1]
  /\ UNCHANGED <<sessions, blob, logReq>>

\* the inbound request emits 'close': close() is res.end()
DebugClose ==
  /\ s.pc = "running" /\ s.cli \in {"connected", "aborted"}
  /\ s' = [s EXCEPT !.cli = "closed", !.ended = TRUE, !.nEnd = @ + 1]
  /\ UNCHANGED <<sessions, blob, logReq>>

NextDebug ==
  \/ DebugStart
  \/ DebugTimeout
  \/ DebugDrain
  \/ DebugAborted
  \/ DebugClose

SpecDebug == InitDebug /\ [][NextDebug]_vars

-----------------------------------------------------------------------------
(* Vocabulary of the properties *)

\* the texts of the frames of kind k, in order
RECURSIVE TextsOf(_, _)
TextsOf(out, k) ==
  IF out = <<>> THEN <<>>
  ELSE (IF Head(out).k = k THEN <<Head(out).t>> ELSE <<>>) \o TextsOf(Tail(out), k)

HasKind(out, k) == \E i \in 1..Len(out) : out[i].k = k

Front(q) == SubSeq(q, 1, Len(q) - 1)

Last(q) == q[Len(q)]

\* the lines among ls that are not empty once trimmed, trimmed
RECURSIVE NonEmptyTrimmed(_)
NonEmptyTrimmed(ls) ==
  IF ls = <<>> THEN <<>>
  ELSE (IF Trim(Head(ls)) = <<>> THEN <<>> ELSE <<Trim(Head(ls))>>)
       \o NonEmptyTrimmed(Tail(ls))

\* the text the 'data' listener has decoded so far, chunk by chunk
RECURSIVE DecodedChunks(_)
DecodedChunks(chunks) ==
  IF chunks = <<>> THEN <<>>
  ELSE ToStringUtf8(Head(chunks)) \o DecodedChunks(Tail(chunks))

CountNL(t) == Cardinality({i \in 1..Len(t) : t[i] = NL})

\* a session whose SSE response is open: headers flushed, heartbeat armed
SseOpen(r) == r.headersSent /\ r.resType = "text/event-stream" /\ r.hbArmed

\* a session that attached its upstream listeners and whose response was
\* ended since, that is by one of the termination triggers
EndedByTrigger(r) == r.pc = "streaming" /\ r.resEnded

-----------------------------------------------------------------------------
(* Session lifecycle *)

\* C1 (as claimed): each teardown side effect (clearInterval of the heartbeat,
\* destroy of the upstream body, end of the outbound response) is executed
\* exactly once over a streaming session's life: never twice, and once each
\* when a termination trigger has ended the session and the inbound
\* connection is closed.
C1_TeardownExactlyOnce ==
  /\ s.nClear <= 1 /\ s.nDestroy <= 1 /\ s.nEnd <= 1
  /\ (EndedByTrigger(s) /\ s.cli = "closed") =>
       s.nClear = 1 /\ s.nDestroy = 1 /\ s.nEnd = 1

\* C2: once a termination trigger has ended the session, every later step
\* (any further trigger included) leaves the outbound response, the heartbeat
\* timer, the carry and the upstream body as they are, and no frame is
\* written to the ended response.
C2_FirstTriggerWins ==
  [][EndedByTrigger(s) =>
       /\ s'.out = s.out /\ s'.late = {} /\ s'.resEnded
       /\ ~s'.hbArmed /\ s'.carry = s.carry /\ s'.up = s.up
       /\ s'.resStatus = s.resStatus]_vars

\* C2 witness: upstream 'end' closed the session and the client's 'close'
\* was handled after it
C2_Witness ==
  /\ EndedByTrigger(s) /\ s.up = "ended" /\ s.cli = "closed" /\ s.nEnd = 2
  /\ HasKind(s.out, "done")

\* C3 (as claimed): whenever the outbound response has been ended, the
\* heartbeat timer is cancelled, and no ':hb' is written to an ended response.
C3_NoHeartbeatAfterEnd == s.resEnded => ~s.hbArmed /\ "hb" \notin s.late

\* C4 (as claimed): when the inbound connection emits 'close' or 'aborted'
\* while the SSE response is open, whether the upstream call is pending or its
\* body is streaming, the heartbeat is cancelled and the upstream body no
\* longer flows.
C4_DisconnectCancels ==
  [][(s.cli = "connected" /\ s'.cli # "connected" /\ SseOpen(s)) =>
       (~s'.hbArmed /\ s'.up \notin {"pending", "flowing"})]_vars

RECURSIVE Flatten(_)
Flatten(ss) == IF ss = <<>> THEN <<>> ELSE Head(ss) \o Flatten(Tail(ss))

\* the bytes of the upstream chunks written before frame i
RawBefore(out, i) == Flatten(TextsOf(SubSeq(out, 1, i - 1), "raw"))

\* the text is at an SSE event boundary: empty, or ending with a blank line
AtEventBoundary(t) ==
  t = <<>> \/ (Len(t) >= 2 /\ t[Len(t)] = NL /\ t[Len(t) - 1] = NL)

\* C5 (as claimed): no ':hb' frame lies between the first byte of an SSE event
\* and the blank line that ends it: when upstream sends SSE, every heartbeat
\* frame that is followed by more upstream bytes was written at an event
\* boundary.
C5_HeartbeatNeverSplits ==
  s.upCt = "text/event-stream" =>
    \A i \in 1..Len(s.out) :
      (s.out[i].k = "hb" /\ \E j \in (i + 1)..Len(s.out) : s.out[j].k = "raw")
        => AtEventBoundary(RawBefore(s.out, i))

\* the data frames a reframe session owes for the chunks received: one per
\* non-empty complete line of the decoded text, and after upstream 'end' the
\* remainder
LinesOwed(r) ==
  LET parts == SplitLines(DecodedChunks(r.got))
  IN  NonEmptyTrimmed(IF r.up = "ended" THEN parts ELSE Front(parts))

-----------------------------------------------------------------------------
(* Line reassembly and reframing *)

\* the run of the same reframe session that receives the whole body as one
\* chunk and then 'end'
WholeRun(text) ==
  LET r0 == OpenedReframe(text)
      r1 == IF text = <<>> THEN r0 ELSE OnDataReframe(r0, text)
  IN  OnEndReframe(r1)

\* C7 (as claimed): the lines emitted for an upstream body do not depend on
\* how the body was split into chunks: after upstream 'end' they are the
\* lines emitted when the body arrives as one chunk.
C7_ChunkingIndependent ==
  s.up = "ended" => TextsOf(s.out, "data") = TextsOf(WholeRun(s.upText).out, "data")

\* C8: no premature emission. In reframe mode the carry is the text after the
\* last delimiter received and holds no delimiter; the data frames written
\* are those of the lines whose delimiter was received, so there are never
\* more of them than delimiters; the only exception is upstream 'end', which
\* adds the non-empty remainder as one final frame.
C8_NoPrematureEmission ==
  s.mode = "reframe" =>
    LET text == DecodedChunks(s.got)
        done == NonEmptyTrimmed(Front(SplitLines(text)))
        data == TextsOf(s.out, "data")
    IN  /\ s.carry = Last(SplitLines(text))
        /\ CountNL(s.carry) = 0
        /\ s.up # "ended" => data = done /\ Len(data) <= CountNL(text)
        /\ s.up = "ended" =>
             data = done \o (IF Trim(s.carry) = <<>> THEN <<>>
                             ELSE <<Trim(s.carry)>>)

\* C8 witness: a complete line was emitted while the text after its
\* delimiter is held back in carry
C8_Witness ==
  /\ s.mode = "reframe" /\ s.up = "flowing" /\ Len(s.got) >= 2
  /\ Trim(s.carry) # <<>> /\ Len(TextsOf(s.out, "data")) = 1

\* C9 (as claimed): once every chunk has arrived, the data frames written are
\* exactly one 'data: <trimmed line>' per complete line of the upstream body
\* that is not empty when trimmed, whatever the chunk boundaries were.
C9_OneFramePerLine ==
  (s.mode = "reframe" /\ s.up = "flowing" /\ s.rest = <<>>) =>
    TextsOf(s.out, "data")
      = NonEmptyTrimmed(Front(SplitLines(ToStringUtf8(s.upText))))

-----------------------------------------------------------------------------
(* Upstream non-success *)

\* what the client got is the upstream status and body as JSON, and nothing
\* of an SSE stream
MirrorsUpstreamError(r) ==
  /\ r.pc = "done" /\ r.resStatus = r.upStatus
  /\ r.resType = "application/json"
  /\ r.resBody = [k |-> "upstream", t |-> r.upText]
  /\ r.out = <<>> /\ r.late = {} /\ ~r.hbArmed /\ r.nClear = 0

\* C10 (as claimed): on every streaming endpoint a non-2xx upstream answer
\* reaches the client as that status with the upstream body verbatim as
\* application/json, with no SSE headers, preamble or heartbeat.
C10_NonSuccessIsHttpError ==
  s.upStatus \in ErrStatuses => MirrorsUpstreamError(s)

\* C10 (amended): the same on POST /assistant and POST /chat/completions,
\* the endpoints that call upstream before they open the SSE response.
C10_PostNonSuccessIsHttpError ==
  (s.ep \in {"assistant", "chat"} /\ s.upStatus \in ErrStatuses)
    => MirrorsUpstreamError(s)

\* C10 witness: POST /assistant answered an upstream 401
C10_Witness ==
  /\ s.ep = "assistant" /\ s.upStatus = 401 /\ s.pc = "done"
  /\ s.upText = <<"a">> /\ s.resStatus = 401

-----------------------------------------------------------------------------
(* Validation and failures of the upstream call *)

\* C11 (as claimed): on GET /assistant-stream a q that is missing, is not
\* parseable JSON, or whose assistantId is absent or no UUID is answered with
\* HTTP 400 and a JSON error, with no upstream call, no SSE headers and no
\* heartbeat.
C11_PreflightValidation ==
  (s.ep = "stream" /\ s.q # "uuid" /\ s.pc # "start") =>
    /\ s.pc = "done" /\ s.resStatus = 400 /\ s.resType = "application/json"
    /\ s.resBody = [k |-> "invalid", t |-> <<>>]
    /\ s.nFetch = 0 /\ s.out = <<>> /\ ~s.hbArmed

\* C12 (as claimed): when the upstream call fails at transport level the
\* handler completes the inbound response and no heartbeat is left running.
C12_FetchFailureHandled ==
  s.up = "unreachable" => s.pc = "done" /\ s.resEnded /\ ~s.hbArmed

\* the response is an SSE stream: its headers were flushed by flushHeaders,
\* not by sending a body
IsSse(r) == r.headersSent /\ r.resBody = NoBody

\* C13: once the SSE headers are flushed no step sets a status code or
\* sends a JSON body, and a response that carries a body carries no SSE
\* frame: each request yields a plain HTTP response or an SSE stream, never
\* both.
C13_StatusCommittedWithHeaders ==
  [][/\ IsSse(s) => /\ IsSse(s') /\ s'.resStatus = 200
                     /\ s'.resType = "text/event-stream"
     /\ s'.resBody # NoBody => s'.out = <<>>]_vars

\* C13 witness: the catch block ran after the SSE headers were flushed and
\* the response is still the SSE stream with status 200
C13_Witness ==
  /\ s.up = "unread" /\ s.pc = "done" /\ IsSse(s) /\ s.resStatus = 200
  /\ s.resBody = NoBody /\ s.resEnded

\* C14: on POST /assistant and POST /chat/completions an exception before
\* the headers were sent gives HTTP 500 with the JSON error body and no
\* SSE frame; an exception after the headers were sent only ends the
\* response: status and body stay as they were and no frame but the
\* preamble and heartbeats was ever written.
C14_InternalFailure ==
  /\ (s.ep # "stream" /\ s.up = "unreachable") =>
       /\ s.pc = "done" /\ s.resStatus = 500
       /\ s.resType = "application/json"
       /\ s.resBody = [k |-> "failed", t |-> <<>>]
       /\ s.out = <<>> /\ s.late \subseteq {} /\ s.nEnd = 0
  /\ (s.ep # "stream" /\ s.up = "unread") =>
       /\ s.pc = "done" /\ s.resEnded /\ s.resStatus = 200
       /\ s.resBody = NoBody /\ IsSse(s)
       /\ \A i \in 1..Len(s.out) : s.out[i].k \in {"pad", "retry", "ok", "hb"}
       /\ s.late \subseteq {"hb"}

\* C14 witness: fetch rejected on POST /chat/completions and the client got
\* the 500
C14_Witness ==
  /\ s.ep = "chat" /\ s.up = "unreachable" /\ s.resStatus = 500
  /\ s.resBody = [k |-> "failed", t |-> <<>>]

------------------------------------------------------------------------------
(* Clean end, upstream error, opening order *)

\* the frames of kind k in out
NumKind(out, k) == Cardinality({i \in 1..Len(out) : out[i].k = k})

\* what the 'end' listener owes the client: the carried remainder, if any,
\* as a data frame, then ':done'
EndFrames(r) ==
  (IF r.mode = "reframe" /\ Trim(r.carry) # <<>>
   THEN <<Frame("data", Trim(r.carry))>> ELSE <<>>) \o <<Frame("done", <<>>)>>

\* C15: when the upstream body ends on an open session the step appends
\* the carried remainder (reframe mode, non-empty after trimming) as a data
\* frame and then ':done' and ends the response; ':done' is never written
\* without an upstream end, at most once, is the last frame, and nothing is
\* written after it.
C15_CleanUpstreamEnd ==
  [][/\ (s.up = "flowing" /\ s'.up = "ended") =>
          /\ ~s.resEnded
          /\ s'.out = s.out \o EndFrames(s)
          /\ s'.resEnded
     /\ s'.up = "ended" =>
          /\ NumKind(s'.out, "done") = 1
          /\ Last(s'.out) = Frame("done", <<>>)
          /\ s'.late = {}
     /\ s'.up # "ended" => NumKind(s'.out, "done") = 0]_vars

\* C15 witness: the upstream body ended with a carried remainder, which was
\* flushed as a data frame before ':done'
C15_Witness ==
  /\ s.up = "ended" /\ s.mode = "reframe" /\ Trim(s.carry) # <<>>
  /\ Len(s.out) >= 5
  /\ s.out[Len(s.out) - 1] = Frame("data", Trim(s.carry))
  /\ Last(s.out) = Frame("done", <<>>)

\* C16: when the upstream body errors on an open session the step appends
\* exactly one ':error <message>' frame carrying the error's message, ends
\* the response and leaves the timer cleared; the session has no ':done',
\* the error frame is its last frame, nothing is written after it, and
\* fetch was called once only.
C16_UpstreamStreamError ==
  [][/\ (s.up = "flowing" /\ s'.up = "errored") =>
          /\ ~s.resEnded
          /\ s'.out = s.out \o <<Frame("error", s'.upErr)>>
          /\ s'.resEnded
     /\ s'.up = "errored" =>
          /\ NumKind(s'.out, "error") = 1
          /\ Last(s'.out) = Frame("error", s'.upErr)
          /\ NumKind(s'.out, "done") = 0
          /\ ~s'.hbArmed /\ s'.late = {}
          /\ s'.nFetch = 1
     /\ s'.up # "errored" => NumKind(s'.out, "error") = 0]_vars

\* C16 witness: the upstream body errored with a message after a chunk and a
\* heartbeat had been relayed, and the client later went away
C16_Witness ==
  /\ s.up = "errored" /\ s.upErr = <<"a">> /\ s.cli = "closed"
  /\ s.got # <<>> /\ HasKind(s.out, "hb")
  /\ Last(s.out) = Frame("error", <<"a">>)

\* " ".repeat(2048) of the padding comment
PadSpaces == 2048

\* bytes of the padding comment `:${" ".repeat(2048)}\n`
PadBytes == 1 + PadSpaces + 1

\* the anti-buffering preamble: padding comment, retry directive, ':ok'
PreambleFrames == <<Frame("pad", <<>>), Frame("retry", <<>>), Frame("ok", <<>>)>>

\* C17: a response whose headers were flushed as a stream, or that has any
\* frame, or whose timer is armed, begins with the preamble: padding, then
\* retry, then ':ok', each exactly once, so every data, raw, heartbeat and
\* terminal frame comes after it; no frame exists before the headers were
\* sent; the padding comment is at least 2048 bytes long.
C17_OpeningOrder ==
  /\ PadBytes >= 2048
  /\ (IsSse(s) \/ s.out # <<>> \/ s.hbArmed) =>
       /\ s.headersSent
       /\ Len(s.out) >= 3 /\ SubSeq(s.out, 1, 3) = PreambleFrames
       /\ \A k \in {"pad", "retry", "ok"} : NumKind(s.out, k) = 1
  /\ s.late \subseteq {"hb"}

\* C17 witness: after the preamble a heartbeat, a data frame and ':done'
\* were written
C17_Witness ==
  /\ Len(s.out) >= 6 /\ SubSeq(s.out, 1, 3) = PreambleFrames
  /\ s.out[4].k = "hb" /\ HasKind(s.out, "data")
  /\ Last(s.out) = Frame("done", <<>>)

------------------------------------------------------------------------------
(* Mode selection, pass-through, release of the upstream body *)

\* upstream answered 2xx and the body listeners were attached
Relaying(r) == r.mode # "none"

\* C18 (as claimed): on every streaming endpoint the mode follows the
\* upstream content-type: an SSE upstream is passed through, and bytes of a
\* non-SSE upstream are never written raw into the SSE stream.
C18_ModeByContentType ==
  Relaying(s) =>
    /\ IncludesSse(s.upCt) => ~HasKind(s.out, "data")
    /\ ~IncludesSse(s.upCt) => ~HasKind(s.out, "raw")

\* C18 (amended): on GET /assistant-stream the mode follows the upstream
\* content-type: pass-through (raw chunks only) when it contains
\* text/event-stream, reframe (data frames only, no raw chunk) otherwise;
\* POST /assistant and POST /chat/completions pass every chunk through
\* whatever the content-type.
C18_StreamModeByContentType ==
  Relaying(s) =>
    /\ (s.ep = "stream" /\ IncludesSse(s.upCt)) =>
         (s.mode = "pass" /\ ~HasKind(s.out, "data"))
    /\ (s.ep = "stream" /\ ~IncludesSse(s.upCt)) =>
         (s.mode = "reframe" /\ ~HasKind(s.out, "raw"))
    /\ s.ep # "stream" => (s.mode = "pass" /\ ~HasKind(s.out, "data"))
    /\ (s.mode = "pass" /\ s.got # <<>>) => HasKind(s.out, "raw")

\* C18 witness: GET /assistant-stream reframed a text/plain line into a data
\* frame, no raw chunk written
C18_Witness ==
  /\ s.ep = "stream" /\ s.upCt = "text/plain" /\ s.mode = "reframe"
  /\ HasKind(s.out, "data") /\ ~HasKind(s.out, "raw") /\ s.got # <<>>

\* the frames the proxy generates itself
ProxyKinds == {"pad", "retry", "ok", "hb", "done", "error", "everr"}

\* the bytes written to the client outside the proxy's own frames
RECURSIVE RelayedBytes(_)
RelayedBytes(out) ==
  IF out = <<>> THEN <<>>
  ELSE (IF Head(out).k \in ProxyKinds THEN <<>> ELSE Head(out).t)
         \o RelayedBytes(Tail(out))

\* C19: in pass-through mode a step in which a chunk arrives appends exactly
\* that chunk, unchanged, as one write; so the bytes written outside the
\* proxy's own frames are the concatenation of the chunks received, and
\* together with the bytes upstream has not delivered they are the
\* upstream body.
C19_PassThroughVerbatim ==
  [][s'.mode = "pass" =>
       /\ s'.got # s.got =>
            \E n \in 1..Len(s.rest) :
              /\ s'.got = Append(s.got, SubSeq(s.rest, 1, n))
              /\ s'.out = Append(s.out, Frame("raw", SubSeq(s.rest, 1, n)))
       /\ RelayedBytes(s'.out) = Flatten(s'.got)
       /\ RelayedBytes(s'.out) \o s'.rest = s'.upText]_vars

\* C19 witness: an SSE body "a", newline, newline reached the client in two
\* chunks with a heartbeat between them and the session ended cleanly
C19_Witness ==
  /\ s.mode = "pass" /\ IncludesSse(s.upCt) /\ s.up = "ended"
  /\ s.upText = <<"a", NL, NL>> /\ Len(s.got) = 2
  /\ \E i \in 1..Len(s.out) :
       /\ s.out[i].k = "hb" /\ RawBefore(s.out, i) # <<>>
       /\ RawBefore(s.out, i) # s.upText
  /\ RelayedBytes(s.out) = s.upText

\* C20 (as claimed): whichever trigger ended a relaying session, client
\* close or abort, upstream end or upstream error, body.destroy() has been
\* called on the upstream body.
C20_UpstreamReleased ==
  (Relaying(s) /\ EndedByTrigger(s)) => s.nDestroy >= 1

------------------------------------------------------------------------------
(* Client disconnect, termination, idle sessions *)

\* C21: a step in which the client's 'close' or 'aborted' arrives writes
\* nothing: the frames written, the writes lost after the end and the carry
\* are as before; where close() is registered the step clears the timer,
\* calls body.destroy() and res.end(), once each.
C21_DisconnectIsSilent ==
  [][s'.cli # s.cli =>
       /\ s'.out = s.out /\ s'.late = s.late /\ s'.carry = s.carry
       /\ s.closeReg =>
            /\ ~s'.hbArmed /\ s'.resEnded
            /\ s'.nClear = s.nClear + 1
            /\ s'.nDestroy = s.nDestroy + 1
            /\ s'.nEnd = s.nEnd + 1]_vars

\* C21 witness: the client went away from a reframe session that held a
\* partial line; the response is ended, upstream destroyed, and the partial
\* line is in no frame
C21_Witness ==
  /\ s.cli = "closed" /\ s.mode = "reframe" /\ s.up = "destroyed"
  /\ Trim(s.carry) # <<>> /\ s.resEnded /\ ~s.hbArmed
  /\ ~HasKind(s.out, "data") /\ ~HasKind(s.out, "done")

\* the heartbeat timer is cancelled and the response is ended
Closed(r) == ~r.hbArmed /\ r.resEnded

\* a termination trigger has occurred on a session whose stream is open
Triggered(r) ==
  IsSse(r) /\ (r.up \in {"ended", "errored"} \/ r.cli # "connected")

\* C22 (as claimed): once upstream end, upstream error or a client
\* disconnect has occurred on a session that has opened its stream, the
\* session eventually is closed, timer cancelled and response ended, and
\* stays closed.
C22_TriggerLeadsToClosed == Triggered(s) ~> [] Closed(s)

\* the session relays, upstream has neither ended nor failed, and the client
\* is connected
Untriggered(r) ==
  r.pc = "streaming" /\ r.up = "flowing" /\ r.cli = "connected"

\* C23: a relaying session on which no trigger has occurred has its timer
\* armed and its response open, after any number of heartbeat ticks and
\* chunks; and a step that ends the response of a relaying session is an
\* upstream end, an upstream error or a client disconnect.
C23_NoIdleTimeout ==
  [][/\ Untriggered(s') => (s'.hbArmed /\ ~s'.resEnded)
     /\ (Untriggered(s) /\ s'.out # s.out /\ Last(s'.out).k = "hb") =>
          (Untriggered(s') /\ s'.hbArmed /\ ~s'.resEnded)
     /\ (Relaying(s) /\ ~s.resEnded /\ s'.resEnded) =>
          \/ s.up = "flowing" /\ s'.up \in {"ended", "errored"}
          \/ s'.cli # s.cli]_vars

\* C23 witness: upstream has delivered its whole body and stays silent; the
\* timer has fired as often as the bound allows and the session is open
C23_Witness ==
  /\ Untriggered(s) /\ s.ep = "assistant" /\ s.rest = <<>>
  /\ NumHb(s.out) = MaxHb /\ Last(s.out).k = "hb"
  /\ s.hbArmed /\ ~s.resEnded

------------------------------------------------------------------------------
(* The upstream request and buffered answers *)

\* C24: the body handed to fetch is the inbound JSON with only stream
\* changed: true on POST /assistant and GET /assistant-stream and false on
\* POST /assistant-json whatever the caller sent; on POST /chat/completions
\* the caller's true or false, and true when the caller sent none (a null
\* counts as none).
C24_StreamFlagOverride ==
  s.sent # NoReq =>
    /\ s.sent.rest = "inbound"
    /\ s.ep \in {"assistant", "stream"} => s.sent.stream = "true"
    /\ s.ep = "json" => s.sent.stream = "false"
    /\ s.ep = "chat" =>
         s.sent.stream = IF s.reqStream \in {"true", "false"}
                         THEN s.reqStream ELSE "true"

\* C24 witness: a caller of POST /assistant asked for stream false and
\* upstream was asked for stream true
C24_Witness ==
  /\ s.ep = "assistant" /\ s.reqStream = "false" /\ s.nFetch = 1
  /\ s.sent = [rest |-> "inbound", stream |-> "true"]

\* the proxy answered with the buffered upstream body: POST /assistant-json,
\* or POST /chat/completions with stream false
Buffered(r) ==
  /\ r.up = "consumed" /\ r.resBody.k = "upstream"
  /\ r.ep = "json" \/ (r.ep = "chat" /\ ~ChatStream(r))

\* C25 (as claimed): a buffered answer has the upstream status, the upstream
\* content-type where upstream gave one, and the upstream body verbatim, and
\* no SSE frame.
C25_BufferedMirrorsUpstream ==
  Buffered(s) =>
    /\ s.resStatus = s.upStatus
    /\ s.upCt # "" => s.resType = s.upCt
    /\ s.resBody.t = s.upText
    /\ s.out = <<>>

------------------------------------------------------------------------------
(* Concurrent sessions *)

\* C26: a step changes at most one session: whatever event one session
\* handles (chunk, tick, end, error, client close and its teardown), the
\* other session's carry, timer, upstream body and response are as before;
\* a ':hb' frame is written to a session by its own armed timer, and a
\* session's timer is cancelled by that session's own end, error or close.
C26_SessionsIndependent ==
  [][\A i \in SessionIds :
       /\ sessions'[i] # sessions[i] =>
            \A j \in SessionIds \ {i} : sessions'[j] = sessions[j]
       /\ NumHb(sessions'[i].out) > NumHb(sessions[i].out) =>
            sessions[i].hbArmed
       /\ (sessions[i].hbArmed /\ ~sessions'[i].hbArmed) =>
            \/ sessions'[i].up # sessions[i].up
            \/ sessions'[i].cli # sessions[i].cli]_vars

\* C26 witness: session 1 was torn down by its client while session 2,
\* holding a partial line, is still relaying with its timer armed
C26_Witness ==
  /\ sessions # NoSessions
  /\ sessions[1].cli = "closed" /\ sessions[1].resEnded
  /\ ~sessions[1].hbArmed /\ sessions[1].up = "destroyed"
  /\ sessions[2].up = "flowing" /\ sessions[2].hbArmed
  /\ ~sessions[2].resEnded /\ sessions[2].carry = <<"a">>
  /\ HasKind(sessions[2].out, "hb")

\* the request passes the handler's validation: the POST routes have none,
\* GET /assistant-stream wants a UUID assistantId
PassesValidation(r) == r.ep # "stream" \/ r.q = "uuid"

\* C27: fetch is called at most once per request: once the handler has run
\* up to its await, exactly once for a request that passes validation and
\* never for one that does not, and no later event (non-2xx answer, stream
\* error, client disconnect, heartbeat) adds a call.
C27_OneUpstreamCall ==
  /\ s.nFetch <= 1
  /\ s.pc # "start" => s.nFetch = IF PassesValidation(s) THEN 1 ELSE 0
  /\ s.nFetch = 0 <=> s.sent = NoReq

\* C27 witness: upstream failed mid-stream and the client then closed; fetch
\* was called once
C27_Witness ==
  /\ s.ep = "stream" /\ s.up = "errored" /\ s.cli = "closed"
  /\ s.got # <<>> /\ s.nFetch = 1 /\ s.sent # NoReq

------------------------------------------------------------------------------
(* The carried remainder at the end of a reframe session *)

\* what flush() yields: the carry trimmed, if that is not empty
Flushed(carry) == IF Trim(carry) # <<>> THEN <<Trim(carry)>> ELSE <<>>

\* C28: in reframe mode the step of the upstream 'end' adds to the data
\* frames exactly the trimmed carry, and nothing when the carry is empty or
\* white space only; the steps of an upstream 'error' and of a client
\* disconnect add no data frame; and once upstream has ended, failed or been
\* destroyed no data frame is ever added, so the carry is flushed at most
\* once.
C28_CarryFlushedOnCleanEndOnly ==
  [][s.mode = "reframe" =>
       /\ (s.up = "flowing" /\ s'.up = "ended") =>
            TextsOf(s'.out, "data") = TextsOf(s.out, "data") \o Flushed(s.carry)
       /\ (s.up = "flowing" /\ s'.up = "errored") =>
            TextsOf(s'.out, "data") = TextsOf(s.out, "data")
       /\ s'.cli # s.cli => TextsOf(s'.out, "data") = TextsOf(s.out, "data")
       /\ s.up # "flowing" =>
            /\ TextsOf(s'.out, "data") = TextsOf(s.out, "data")
            /\ s'.carry = s.carry]_vars

\* C28 witness: upstream ended while the carry held white space only, and
\* the session has ':done' but no data frame
C28_Witness ==
  /\ s.mode = "reframe" /\ s.up = "ended"
  /\ s.carry # <<>> /\ Trim(s.carry) = <<>>
  /\ ~HasKind(s.out, "data") /\ Last(s.out) = Frame("done", <<>>)

------------------------------------------------------------------------------
(* Non-2xx answer on GET /assistant-stream *)

\* C29: on GET /assistant-stream a non-2xx upstream answer gives, after the
\* preamble, exactly one 'event: error' frame carrying the upstream status
\* and the first 300 characters of the upstream body; the response is then
\* ended, close() is not registered, no body listener is attached, and no
\* data frame, raw chunk, ':done' or ':error' is written.  No other request
\* has such a frame.
C29_StreamNonSuccessFrame ==
  IF s.ep = "stream" /\ s.upStatus \in ErrStatuses
  THEN /\ Len(s.out) >= 4 /\ SubSeq(s.out, 1, 3) = PreambleFrames
       /\ NumKind(s.out, "everr") = 1
       /\ Last(s.out).k = "everr"
       /\ Head(Last(s.out).t) = ToString(s.upStatus)
       /\ Len(Tail(Last(s.out).t)) <= 300
       /\ \A i \in 1..Len(Tail(Last(s.out).t)) :
            i <= 300 /\ Tail(Last(s.out).t)[i] = s.upText[i]
       /\ Len(s.upText) <= 300 => Tail(Last(s.out).t) = s.upText
       /\ Len(s.upText) > 300 => Len(Tail(Last(s.out).t)) = 300
       /\ s.resEnded /\ s.pc = "done"
       /\ ~s.closeReg /\ s.mode = "none" /\ s.got = <<>>
       /\ \A k \in {"data", "raw", "done", "error"} : NumKind(s.out, k) = 0
  ELSE NumKind(s.out, "everr") = 0

\* C29 witness: upstream answered 401 with a body of 301 characters after a
\* heartbeat had been written; the frame carries 300 of them
C29_Witness ==
  /\ s.ep = "stream" /\ s.upStatus = 401 /\ Len(s.upText) = 301
  /\ HasKind(s.out, "hb") /\ Last(s.out).k = "everr"
  /\ Len(Last(s.out).t) = 301 /\ s.resEnded

------------------------------------------------------------------------------
(* Concurrent log appends *)

\* C30 (as claimed): the blob holds one line for every POST /log request
\* that was answered 200 {ok: true}.
C30_NoLogLineLost ==
  \A i \in LogIds :
    logReq[i] = "ok" =>
      Cardinality({k \in 1..Len(blob.lines) : blob.lines[k] = i}) = 1

------------------------------------------------------------------------------
(* Upload normalisation *)

\* the keys of an answer in the order the handler consults them
IdKeys(d) == <<d.attachmentId, d.id, d.attachment_id, d.result_attachmentId>>

\* the value is a usable id: present, not null, not the empty string
Usable(v) == v \notin {"absent", "null", "empty"}

\* C31 (as claimed): after a 2xx answer the client gets 200 exactly when the
\* body is a JSON object with a usable id under one of the four keys; the
\* id sent is that of the first such key, and it is never null; every other
\* 2xx answer gives 500; a non-2xx answer is sent on with its status, its
\* content-type where it has one, and its body.
C31_UploadNormalisation ==
  /\ (s.pc = "done" /\ s.upStatus \in OkStatuses) =>
       IF s.upText.kind = "object"
          /\ \E i \in 1..4 : Usable(IdKeys(s.upText)[i])
       THEN /\ s.res.status = 200
            /\ s.res.body.attachmentId # "null"
            /\ \E i \in 1..4 :
                 /\ Usable(IdKeys(s.upText)[i])
                 /\ \A j \in 1..(i - 1) : ~Usable(IdKeys(s.upText)[j])
                 /\ s.res.body.attachmentId = IdKeys(s.upText)[i]
       ELSE s.res.status = 500
  /\ (s.pc = "done" /\ s.upStatus \in ErrStatuses) =>
       /\ s.res.status = s.upStatus
       /\ s.upCt # "" => s.res.type = s.upCt
       /\ s.res.body = [k |-> "upstream", t |-> s.upText]

------------------------------------------------------------------------------
(* The debug stream *)

\* C32: the data frames written are numbered 1, 2, ... without gap or
\* repetition and there are at most ten; while the client is connected every
\* tick so far is written, the response is ended exactly when frame 10 has
\* been written, and then nothing is pending; a chain that waits for 'drain'
\* does not tick until 'drain' has come; and whatever the client does, no
\* tick numbered above 10 is made, written or lost.
C32_DebugStreamTerminates ==
  [][/\ \A k \in 1..Len(s'.out) : s'.out[k] = k
     /\ Len(s'.out) <= 10 /\ s'.i <= 10
     /\ \A n \in s'.late : n <= 10 /\ n > Len(s'.out)
     /\ s'.cli = "connected" =>
          /\ Len(s'.out) = s'.i
          /\ s'.ended <=> s'.i = 10
     /\ s'.i = 10 => (s'.pending = "none" /\ s'.ended)
     /\ s.pending = "drain" => s'.i = s.i
     /\ (s.pending = "none" /\ s.pc = "running") =>
          (s'.i = s.i /\ s'.out = s.out /\ s'.pending = "none")]_vars

\* C32 witness: with the client connected and one write having reported
\* backpressure, frames 1 to 10 were written and the response was ended
C32_Witness ==
  /\ s.cli = "connected" /\ s.nDrain >= 1
  /\ s.out = [k \in 1..10 |-> k]
  /\ s.ended /\ s.nEnd = 1 /\ s.pending = "none" /\ s.late = {}

====
